---- MODULE Spec2Model ----
(***************************************************************************)
(* SimpleMediaDownloader: the batch download orchestrator.                 *)
(*                                                                         *)
(* The main control thread sits at the menu (select), runs one handler at  *)
(* a time (single/multiple download, playlist download, resume failed      *)
(* downloads, thread settings, help) and, inside run_download, hands jobs  *)
(* to the worker threads of a ThreadPoolExecutor.  The process-wide state  *)
(* is MAX_WORKERS and FAILED_DOWNLOADS.                                    *)
(***************************************************************************)
EXTENDS Integers, Sequences, FiniteSets, TLC

(***************************************************************************)
(* Bounds of the model.                                                    *)
(***************************************************************************)
\* longest list of URLs typed into get_urls, and most entries of a resolved playlist
MaxJobs == 2
\* most records FAILED_DOWNLOADS may hold (a batch that could take it beyond is not started)
MaxReg == 2
\* most playlist URLs typed into one playlist-mode handler
MaxPlaylists == 2
\* longest urls argument of a call of run_download taken on its own
PoolJobs == 5

(***************************************************************************)
(* Strings.  A Python string whose characters matter (a label searched     *)
(* with "in", an error message split at newlines, a line typed at a        *)
(* prompt) is a sequence of one-character strings.                         *)
(***************************************************************************)
NL == "\n"

cVideo == <<"V", "i", "d", "e", "o">>
cAudio == <<"A", "u", "d", "i", "o">>
cWith == <<"w", "i", "t", "h">>
cWithout == <<"w", "i", "t", "h", "o", "u", "t">>
cPlaylist == <<"P", "l", "a", "y", "l", "i", "s", "t">>
cSp == <<" ">>

\* the descriptions the six download handlers pass to run_download
SingleLabels == {"Video with Audio", "Audio", "Video without Audio"}
PlaylistLabels == {"Playlist Video with Audio", "Playlist Audio", "Playlist Video without Audio"}
Labels == SingleLabels \cup PlaylistLabels

\* the characters of a description
LabelChars(l) ==
  CASE l = "Video with Audio" -> cVideo \o cSp \o cWith \o cSp \o cAudio
    [] l = "Audio" -> cAudio
    [] l = "Video without Audio" -> cVideo \o cSp \o cWithout \o cSp \o cAudio
    [] l = "Playlist Video with Audio" -> cPlaylist \o cSp \o cVideo \o cSp \o cWith \o cSp \o cAudio
    [] l = "Playlist Audio" -> cPlaylist \o cSp \o cAudio
    [] l = "Playlist Video without Audio" -> cPlaylist \o cSp \o cVideo \o cSp \o cWithout \o cSp \o cAudio

\* Python's  needle in hay  on strings
Contains(needle, hay) ==
  \E i \in 1..(Len(hay) - Len(needle) + 1) : SubSeq(hay, i, i + Len(needle) - 1) = needle

\* Python's  s.split(sep): the pieces of s between the occurrences of the character sep
RECURSIVE Split(_, _)
Split(s, sep) ==
  IF \A i \in 1..Len(s) : s[i] # sep
  THEN <<s>>
  ELSE LET k == CHOOSE i \in 1..Len(s) : s[i] = sep /\ \A j \in 1..(i - 1) : s[j] # sep
       IN  <<SubSeq(s, 1, k - 1)>> \o Split(SubSeq(s, k + 1, Len(s)), sep)

\* Python's  s.strip()  for the blank character
RECURSIVE Strip(_)
Strip(s) ==
  IF s = <<>> THEN s
  ELSE IF Head(s) = " " THEN Strip(Tail(s))
  ELSE IF s[Len(s)] = " " THEN Strip(SubSeq(s, 1, Len(s) - 1))
  ELSE s

Digits == {"0", "1", "2", "3", "4", "5", "6", "7", "8", "9"}

DigitVal(c) ==
  CASE c = "0" -> 0 [] c = "1" -> 1 [] c = "2" -> 2 [] c = "3" -> 3 [] c = "4" -> 4
    [] c = "5" -> 5 [] c = "6" -> 6 [] c = "7" -> 7 [] c = "8" -> 8 [] c = "9" -> 9

\* a character that isdigit() accepts and int() rejects with ValueError, such
\* as the superscript two
SuperscriptTwo == "sup2"

\* Python's  s.isdigit()
IsDigit(s) == s # <<>> /\ \A i \in 1..Len(s) : s[i] \in Digits \cup {SuperscriptTwo}

\* int(s) raises ValueError, for an s that isdigit() accepted
IntRaises(s) == \E i \in 1..Len(s) : s[i] \notin Digits

\* Python's  int(s)  for a string of digits
RECURSIVE ToInt(_)
ToInt(s) ==
  IF s = <<>> THEN 0 ELSE 10 * ToInt(SubSeq(s, 1, Len(s) - 1)) + DigitVal(s[Len(s)])

\* Python's  s.lower()  for the characters typed at the resume prompt
Lower(s) == [i \in 1..Len(s) |-> IF s[i] = "A" THEN "a" ELSE IF s[i] = "C" THEN "c" ELSE s[i]]

(***************************************************************************)
(* yt-dlp options.  A key the code leaves unset holds yt-dlp's default     *)
(* (format "default", no postprocessors, noplaylist False).                *)
(***************************************************************************)
OutputDir == "./downloads"
ItemTemplate == "%(title)s [%(id)s].%(ext)s"

base_ydl_opts(output_dir) ==
  [retries |-> 5, fragment_retries |-> 10, continuedl |-> TRUE, nooverwrites |-> TRUE,
   progress_hooks |-> <<"progress_hook">>, outtmpl |-> <<output_dir, ItemTemplate>>,
   writethumbnail |-> FALSE, quiet |-> FALSE, verbose |-> FALSE,
   noplaylist |-> FALSE, format |-> "default", postprocessors |-> <<>>]

ConvertToMp4 == <<<<"FFmpegVideoConvertor", "mp4">>, <<"FFmpegMetadata">>>>
ExtractMp3 == <<<<"FFmpegExtractAudio", "mp3", "0">>, <<"FFmpegMetadata">>>>

\* options of [1] Video with Audio
download_video_with_audio_opts(output_dir) ==
  [base_ydl_opts(output_dir) EXCEPT !.noplaylist = TRUE,
     !.format = "bestvideo+bestaudio", !.postprocessors = ConvertToMp4]

\* options of [2] Audio Only
download_audio_single_opts(output_dir) ==
  [base_ydl_opts(output_dir) EXCEPT !.noplaylist = TRUE,
     !.format = "bestaudio/best", !.postprocessors = ExtractMp3]

\* options of [3] Video without Audio
download_video_only_single_opts(output_dir) ==
  [base_ydl_opts(output_dir) EXCEPT !.noplaylist = TRUE,
     !.format = "bestvideo", !.postprocessors = ConvertToMp4]

\* the playlist's own directory: output_dir joined with the sanitized playlist title
PlaylistTemplate(output_dir) == <<output_dir, "sanitize_filename(playlist_title)", ItemTemplate>>

\* options of [4] Video with Audio (Playlist Mode)
download_video_with_audio_playlist_opts(output_dir) ==
  [base_ydl_opts(output_dir) EXCEPT !.outtmpl = PlaylistTemplate(output_dir), !.noplaylist = TRUE,
     !.format = "bestvideo+bestaudio", !.postprocessors = ConvertToMp4]

\* options of [5] Audio Only (Playlist Mode)
download_audio_playlist_opts(output_dir) ==
  [base_ydl_opts(output_dir) EXCEPT !.outtmpl = PlaylistTemplate(output_dir), !.noplaylist = TRUE,
     !.format = "bestaudio/best", !.postprocessors = ExtractMp3]

\* options of [6] Video without Audio (Playlist Mode)
download_video_only_playlist_opts(output_dir) ==
  [base_ydl_opts(output_dir) EXCEPT !.outtmpl = PlaylistTemplate(output_dir), !.noplaylist = TRUE,
     !.format = "bestvideo", !.postprocessors = ConvertToMp4]

\* the options with which the handler of a description first downloads
HandlerOpts(label, output_dir) ==
  CASE label = "Video with Audio" -> download_video_with_audio_opts(output_dir)
    [] label = "Audio" -> download_audio_single_opts(output_dir)
    [] label = "Video without Audio" -> download_video_only_single_opts(output_dir)
    [] label = "Playlist Video with Audio" -> download_video_with_audio_playlist_opts(output_dir)
    [] label = "Playlist Audio" -> download_audio_playlist_opts(output_dir)
    [] label = "Playlist Video without Audio" -> download_video_only_playlist_opts(output_dir)

\* the options _retry_downloads builds for a record's description: the first
\* branch whose text occurs in the description decides format and postprocessors
retry_downloads_opts(mode, output_dir) ==
  LET m == LabelChars(mode)
      base == base_ydl_opts(output_dir)
      placed == IF Contains(cPlaylist, m)
                THEN [base EXCEPT !.outtmpl = <<output_dir, "%(playlist_title)s", ItemTemplate>>,
                                  !.noplaylist = FALSE]
                ELSE [base EXCEPT !.noplaylist = TRUE]
  IN  IF Contains(cVideo \o cSp \o cWith \o cSp \o cAudio, m)
      THEN [placed EXCEPT !.format = "bestvideo+bestaudio", !.postprocessors = ConvertToMp4]
      ELSE IF Contains(cAudio, m)
      THEN [placed EXCEPT !.format = "bestaudio/best", !.postprocessors = ExtractMp3]
      ELSE IF Contains(cVideo \o cSp \o cWithout \o cSp \o cAudio, m)
      THEN [placed EXCEPT !.format = "bestvideo", !.postprocessors = ConvertToMp4]
      ELSE placed

\* options handed to the workers as the caller built them
concurrent_ydl_opts_verbose(opts) == opts

\* the options run_download hands to the workers of a concurrent batch
concurrent_ydl_opts(opts) == [opts EXCEPT !.progress_hooks = <<>>, !.quiet = TRUE]

(***************************************************************************)
(* MediaFetcher (yt-dlp) as seen from download_single: a fetch either      *)
(* completes or raises an exception carrying a message.                    *)
(***************************************************************************)
Urls == {"a", "b"}

\* the message of the exception a failing fetch of url raises; b's has two lines
ErrorMessage(url) == IF url = "a" THEN <<"E", "1">> ELSE <<"E", "2", NL, "t", "b">>

FetchOutcomes(url) == {[ok |-> TRUE, msg |-> <<>>], [ok |-> FALSE, msg |-> ErrorMessage(url)]}

\* Python's None
None == <<>>

\* Python's truth value of None or a tuple
Truthy(v) == v # <<>>

\* str(e).split('\n')[0]
FirstLine(msg) == Split(msg, NL)[1]

\* download_single as it would be without its except clause
download_single_uncaught(opts, url, d, o) ==
  IF o.ok THEN [raised |-> FALSE, value |-> None] ELSE [raised |-> TRUE, value |-> o.msg]

\* download_single: None on success, (url, desc, first line of the error) on any exception
download_single(opts, url, d, o) ==
  IF o.ok
  THEN [raised |-> FALSE, value |-> None]
  ELSE [raised |-> FALSE, value |-> <<url, d, FirstLine(o.msg)>>]

(***************************************************************************)
(* State.                                                                  *)
(***************************************************************************)
VARIABLES
  MAX_WORKERS,       \* global: number of concurrent download threads
  FAILED_DOWNLOADS,  \* global: sequence of <<url, desc, error>>
  pc,                \* where the main thread is
  op,                \* the handler select() is running: "none", "single", "playlist", "settings", "help",
                     \* "resume" (nothing to retry), "retry_all", "retry_selected", "retry_one"
  idxs,              \* resume handler: the indices parsed from the choice, 0-based
  todo,              \* what the handler's loop has still to do (playlist URLs, or retries <<desc, urls>>)
  raised,            \* the exception on its way to select(): "none", "fetch", "output_dir", "int"
  urls,              \* run_download: its urls argument
  desc,              \* run_download: its desc argument
  ydl_opts,          \* run_download: its ydl_opts argument
  job_opts,          \* run_download: the options handed to download_single
  executor,          \* run_download: max_workers of the open ThreadPoolExecutor, 0 when none is open
  futures,           \* run_download: the futures submitted so far, [state, raised, value]
  failed,            \* run_download: local list failed
  succeeded,         \* run_download: local list succeeded
  fetched,           \* history: how often MediaFetcher was invoked for each job of this call
  outcome,           \* history: "none", "ok" or "fail", what the fetch of each job did
  regAtCall,         \* history: FAILED_DOWNLOADS when run_download was entered
  overtaken,         \* history: some job of this call finished while one submitted before it had not
  info,              \* playlist handler: what extract_info returned for the playlist in hand
  snapshot,          \* history: FAILED_DOWNLOADS when the running handler started
  issued             \* history: the retries the running resume handler has issued, <<desc, urls, opts>>

frame == <<urls, desc, ydl_opts, job_opts, executor, futures, failed, succeeded, fetched, outcome,
           regAtCall, overtaken>>
globals == <<MAX_WORKERS, FAILED_DOWNLOADS>>
handler == <<op, todo, raised, idxs, info, snapshot, issued>>
vars == <<MAX_WORKERS, FAILED_DOWNLOADS, pc, op, todo, raised, idxs, overtaken, urls, desc, ydl_opts, job_opts,
          executor, futures, failed, succeeded, fetched, outcome, regAtCall, info, snapshot, issued>>

NoOpts == base_ydl_opts(OutputDir)
NoInfo == [kind |-> "none", entries |-> <<>>]

\* no call of run_download is active
NoFrame ==
  /\ urls' = <<>> /\ desc' = "" /\ ydl_opts' = NoOpts /\ job_opts' = NoOpts
  /\ executor' = 0 /\ futures' = <<>> /\ failed' = <<>> /\ succeeded' = <<>>
  /\ fetched' = <<>> /\ outcome' = <<>> /\ regAtCall' = <<>> /\ overtaken' = FALSE

\* the main thread enters run_download(opts, us, d)
CallRunDownload(opts, us, d) ==
  /\ urls' = us /\ desc' = d /\ ydl_opts' = opts /\ job_opts' = opts
  /\ executor' = 0 /\ futures' = <<>> /\ failed' = <<>> /\ succeeded' = <<>>
  /\ fetched' = [i \in 1..Len(us) |-> 0]
  /\ outcome' = [i \in 1..Len(us) |-> "none"]
  /\ regAtCall' = FAILED_DOWNLOADS'
  /\ overtaken' = FALSE
  /\ pc' = "rd_start"

Init ==
  /\ MAX_WORKERS = 5
  /\ FAILED_DOWNLOADS = <<>>
  /\ pc = "menu" /\ op = "none" /\ todo = <<>> /\ raised = "none" /\ idxs = <<>>
  /\ urls = <<>> /\ desc = "" /\ ydl_opts = NoOpts /\ job_opts = NoOpts
  /\ executor = 0 /\ futures = <<>> /\ failed = <<>> /\ succeeded = <<>>
  /\ fetched = <<>> /\ outcome = <<>> /\ regAtCall = <<>> /\ overtaken = FALSE
  /\ info = NoInfo /\ snapshot = <<>> /\ issued = <<>>

(***************************************************************************)
(* run_download                                                            *)
(***************************************************************************)
\* where run_download's caller goes on, and where an exception out of it lands:
\* the playlist handlers catch it per playlist, the others let it reach select()
\* a handler that goes to quit_prompt after its first call of run_download
AfterRunQuit == "quit"

AfterRun ==
  CASE op = "playlist" -> "pl_loop"
    [] op \in {"retry_all", "retry_selected", "retry_one"} -> "retry_loop"
    [] OTHER -> "quit"
AfterRaise == IF op = "playlist" THEN "pl_loop" ELSE "unexpected_error"

\* an empty list sent through the executor like any other
RunEmptyThroughPool ==
  /\ pc = "rd_start" /\ urls = <<>>
  /\ job_opts' = concurrent_ydl_opts(ydl_opts)
  /\ executor' = MAX_WORKERS
  /\ pc' = "rd_wait"
  /\ UNCHANGED <<globals, handler, urls, desc, ydl_opts, futures, failed, succeeded,
                 fetched, outcome, regAtCall, overtaken>>

\* if not urls: return
RunEmpty ==
  /\ pc = "rd_start" /\ urls = <<>>
  /\ pc' = "rd_return"
  /\ UNCHANGED <<globals, handler, frame>>

\* len(urls) == 1: the main thread downloads the one URL itself
RunSingle ==
  /\ pc = "rd_start" /\ Len(urls) = 1
  /\ \E o \in FetchOutcomes(urls[1]) :
       LET result == download_single(ydl_opts, urls[1], desc, o)
       IN  /\ fetched' = [fetched EXCEPT ![1] = @ + 1]
           /\ outcome' = [outcome EXCEPT ![1] = IF o.ok THEN "ok" ELSE "fail"]
           /\ IF result.raised
              THEN /\ pc' = AfterRaise
                   /\ raised' = IF op = "playlist" THEN raised ELSE "fetch"
                   /\ UNCHANGED <<failed, succeeded>>
              ELSE /\ pc' = "rd_extend"
                   /\ raised' = raised
                   /\ IF Truthy(result.value)
                      THEN failed' = Append(failed, result.value) /\ succeeded' = succeeded
                      ELSE succeeded' = Append(succeeded, urls[1]) /\ failed' = failed
  /\ UNCHANGED <<globals, op, todo, idxs, info, snapshot, issued, urls, desc, ydl_opts, job_opts,
                 executor, futures, regAtCall, overtaken>>

\* len(urls) > 1: copy the options, silence them, open the executor
BeginConcurrent ==
  /\ pc = "rd_start" /\ Len(urls) > 1
  /\ job_opts' = concurrent_ydl_opts(ydl_opts)
  /\ executor' = MAX_WORKERS
  /\ pc' = "rd_submit"
  /\ UNCHANGED <<globals, handler, urls, desc, ydl_opts, futures, failed, succeeded,
                 fetched, outcome, regAtCall, overtaken>>

\* executor.submit(download_single, concurrent_ydl_opts, url, desc) for the next url
Submit ==
  /\ pc = "rd_submit"
  /\ futures' = Append(futures, [state |-> "queued", raised |-> FALSE, value |-> None])
  /\ pc' = IF Len(futures) + 1 = Len(urls) THEN "rd_wait" ELSE "rd_submit"
  /\ UNCHANGED <<globals, handler, urls, desc, ydl_opts, job_opts, executor, failed, succeeded,
                 fetched, outcome, regAtCall, overtaken>>

Running == {i \in 1..Len(futures) : futures[i].state = "running"}

\* a pool that starts a thread per work item, whatever max_workers says
WorkerFreeAlways == TRUE

\* a worker thread is free to take a work item
WorkerFree == Cardinality(Running) < executor

\* a queue that hands out a work item again while it is still running
NextQueuedOrRunning(i) ==
  /\ i \in 1..Len(futures)
  /\ futures[i].state \in {"queued", "running"}

\* the work item a free worker takes from the executor's queue: the oldest queued one
NextQueued(i) ==
  /\ i \in 1..Len(futures)
  /\ futures[i].state = "queued"
  /\ \A j \in 1..(i - 1) : futures[j].state # "queued"

\* a worker thread takes job i and calls download_single, which starts the fetch
WorkerStart(i) ==
  /\ executor > 0
  /\ NextQueued(i)
  /\ WorkerFree
  /\ futures' = [futures EXCEPT ![i].state = "running"]
  /\ fetched' = [fetched EXCEPT ![i] = @ + 1]
  /\ UNCHANGED <<globals, handler, pc, urls, desc, ydl_opts, job_opts, executor, failed, succeeded,
                 outcome, regAtCall, overtaken>>

\* a worker that appends the record of its failure to FAILED_DOWNLOADS itself
WorkerFinishRecords(i) ==
  /\ i \in Running
  /\ \E o \in FetchOutcomes(urls[i]) :
       LET result == download_single(job_opts, urls[i], desc, o)
       IN  /\ futures' = [futures EXCEPT ![i] = [state |-> "done", raised |-> FALSE, value |-> None]]
           /\ outcome' = [outcome EXCEPT ![i] = IF o.ok THEN "ok" ELSE "fail"]
           /\ FAILED_DOWNLOADS' = IF Truthy(result.value) THEN Append(FAILED_DOWNLOADS, result.value)
                                  ELSE FAILED_DOWNLOADS
  /\ overtaken' = (overtaken \/ \E j \in 1..(i - 1) : futures[j].state # "done")
  /\ UNCHANGED <<MAX_WORKERS, handler, pc, urls, desc, ydl_opts, job_opts, executor, failed, succeeded,
                 fetched, regAtCall>>

\* the fetch of job i ends; download_single returns and the future is set
WorkerFinish(i) ==
  /\ i \in Running
  /\ \E o \in FetchOutcomes(urls[i]) :
       LET result == download_single(job_opts, urls[i], desc, o)
       IN  /\ futures' = [futures EXCEPT ![i] = [state |-> "done", raised |-> result.raised,
                                                  value |-> result.value]]
           /\ outcome' = [outcome EXCEPT ![i] = IF o.ok THEN "ok" ELSE "fail"]
  /\ overtaken' = (overtaken \/ \E j \in 1..(i - 1) : futures[j].state # "done")
  /\ UNCHANGED <<globals, handler, pc, urls, desc, ydl_opts, job_opts, executor, failed, succeeded,
                 fetched, regAtCall>>

AllDone == \A i \in 1..Len(futures) : futures[i].state = "done"

\* wait(futures, return_when=FIRST_COMPLETED): returns at the first finished job
WaitFirstCompleted ==
  /\ pc = "rd_wait"
  /\ \E i \in 1..Len(futures) : futures[i].state = "done"
  /\ pc' = "rd_collect"
  /\ UNCHANGED <<globals, handler, frame>>

\* concurrent.futures.wait(futures) returns
WaitDone ==
  /\ pc = "rd_wait"
  /\ AllDone
  /\ pc' = "rd_collect"
  /\ UNCHANGED <<globals, handler, frame>>

\* a collection that puts each failure in front of the earlier ones
RECURSIVE CollectFailedReversed(_, _, _, _)
CollectFailedReversed(fs, us, d, n) ==
  IF n = 0 THEN <<>>
  ELSE LET rest == CollectFailedReversed(fs, us, d, n - 1)
       IN  IF fs[n].raised THEN <<<<us[n], d, FirstLine(fs[n].value)>>>> \o rest
           ELSE IF Truthy(fs[n].value) THEN <<fs[n].value>> \o rest
           ELSE rest

\* the loop over enumerate(futures): the failed list after futures 1..n
RECURSIVE CollectFailed(_, _, _, _)
CollectFailed(fs, us, d, n) ==
  IF n = 0 THEN <<>>
  ELSE LET rest == CollectFailed(fs, us, d, n - 1)
       IN  IF fs[n].raised THEN Append(rest, <<us[n], d, FirstLine(fs[n].value)>>)
           ELSE IF Truthy(fs[n].value) THEN Append(rest, fs[n].value)
           ELSE rest

\* the loop over enumerate(futures): the succeeded list after futures 1..n
RECURSIVE CollectSucceeded(_, _, _)
CollectSucceeded(fs, us, n) ==
  IF n = 0 THEN <<>>
  ELSE LET rest == CollectSucceeded(fs, us, n - 1)
       IN  IF ~fs[n].raised /\ ~Truthy(fs[n].value) THEN Append(rest, us[n]) ELSE rest

\* the results are read in submission order; leaving the with block shuts the executor down
Collect ==
  /\ pc = "rd_collect"
  /\ failed' = failed \o CollectFailed(futures, urls, desc, Len(futures))
  /\ succeeded' = succeeded \o CollectSucceeded(futures, urls, Len(futures))
  /\ executor' = 0
  /\ pc' = "rd_extend"
  /\ UNCHANGED <<globals, handler, urls, desc, ydl_opts, job_opts, futures, fetched, outcome,
                 regAtCall, overtaken>>

\* FAILED_DOWNLOADS = failed  in place of  FAILED_DOWNLOADS.extend(failed)
ExtendOverwrite ==
  /\ pc = "rd_extend"
  /\ FAILED_DOWNLOADS' = IF failed # <<>> THEN failed ELSE FAILED_DOWNLOADS
  /\ pc' = "rd_return"
  /\ UNCHANGED <<MAX_WORKERS, handler, frame>>

\* if failed: FAILED_DOWNLOADS.extend(failed)
Extend ==
  /\ pc = "rd_extend"
  /\ FAILED_DOWNLOADS' = IF failed # <<>> THEN FAILED_DOWNLOADS \o failed ELSE FAILED_DOWNLOADS
  /\ pc' = "rd_return"
  /\ UNCHANGED <<MAX_WORKERS, handler, frame>>

\* run_download returns to the handler that called it
Return ==
  /\ pc = "rd_return"
  /\ pc' = AfterRun
  /\ NoFrame
  /\ UNCHANGED <<globals, handler>>

(***************************************************************************)
(* What the user types.                                                    *)
(***************************************************************************)
\* sequences over S of length lo..hi
SeqsOf(S, lo, hi) == UNION {[1..n -> S] : n \in lo..hi}

\* what get_urls returns: the valid URLs typed, in order
UrlLists == SeqsOf(Urls, 0, MaxJobs)

PlaylistUrls == {"p", "q"}
PlaylistLists == SeqsOf(PlaylistUrls, 0, MaxPlaylists)

\* get_output_dir: returns the directory, or raises (input at end of file, or
\* the fallback os.makedirs failing too)
DirOutcomes == {"ok", "raise"}

\* the batch cannot take FAILED_DOWNLOADS beyond the model's bound
Fits(n) == Len(FAILED_DOWNLOADS) + n <= MaxReg

\* the handler's history starts
StartHandler(name) ==
  /\ op' = name
  /\ idxs' = <<>>
  /\ info' = NoInfo
  /\ snapshot' = FAILED_DOWNLOADS

\* the handler's history is dropped
NoHandler ==
  /\ op' = "none" /\ todo' = <<>> /\ raised' = "none" /\ idxs' = <<>> /\ info' = NoInfo
  /\ snapshot' = <<>> /\ issued' = <<>>

(***************************************************************************)
(* [1] [2] [3]: download_video_with_audio, download_audio_single,          *)
(* download_video_only_single                                              *)
(***************************************************************************)
DownloadSingles(label, us, dir) ==
  /\ pc = "menu"
  /\ StartHandler("single")
  /\ todo' = <<>>
  /\ UNCHANGED globals
  /\ IF us = <<>>
     THEN \* No valid URLs provided.
          /\ pc' = "quit"
          /\ raised' = "none"
          /\ issued' = <<>>
          /\ UNCHANGED frame
     ELSE IF dir = "raise"
     THEN /\ pc' = "unexpected_error"
          /\ raised' = "output_dir"
          /\ issued' = <<>>
          /\ UNCHANGED frame
     ELSE /\ Fits(Len(us))
          /\ raised' = "none"
          /\ issued' = <<>>
          /\ CallRunDownload(HandlerOpts(label, OutputDir), us, label)

(***************************************************************************)
(* [4] [5] [6]: the playlist handlers                                      *)
(***************************************************************************)
\* an entry of a flat playlist extraction: with a url, or without one
Entries == {[url |-> u] : u \in Urls} \cup {[id |-> "x"]}

\* what ydl.extract_info returns for a playlist URL, or that it raises
ResolverResults ==
  {[kind |-> "raise", entries |-> <<>>], [kind |-> "no_entries", entries |-> <<>>]}
    \cup {[kind |-> "playlist", entries |-> es] : es \in SeqsOf(Entries, 0, MaxJobs)}

\* [entry['url'] for entry in info['entries'] if 'url' in entry]
RECURSIVE VideoUrls(_)
VideoUrls(es) ==
  IF es = <<>> THEN <<>>
  ELSE IF "url" \in DOMAIN Head(es) THEN <<Head(es).url>> \o VideoUrls(Tail(es))
  ELSE VideoUrls(Tail(es))

DownloadPlaylists(label, pls, dir) ==
  /\ pc = "menu"
  /\ StartHandler("playlist")
  /\ issued' = <<>>
  /\ UNCHANGED <<globals, frame>>
  /\ IF pls = <<>>
     THEN pc' = "quit" /\ raised' = "none" /\ todo' = <<>>
     ELSE IF dir = "raise"
     THEN pc' = "unexpected_error" /\ raised' = "output_dir" /\ todo' = <<>>
     ELSE pc' = "pl_loop" /\ raised' = "none" /\ todo' = [i \in 1..Len(pls) |-> <<label, pls[i]>>]

\* a loop without the try/except around its body: a URL that cannot be
\* processed ends the handler
PlaylistStepAbort(got, mkdir) ==
  /\ pc = "pl_loop"
  /\ todo # <<>>
  /\ todo' = Tail(todo)
  /\ info' = got
  /\ UNCHANGED <<globals, op, raised, idxs, snapshot, issued>>
  /\ IF got.kind = "raise" \/ got.kind = "no_entries" \/ mkdir = "raise"
     THEN /\ pc' = "quit"
          /\ UNCHANGED frame
     ELSE /\ Fits(Len(VideoUrls(got.entries)))
          /\ CallRunDownload(HandlerOpts(Head(todo)[1], OutputDir), VideoUrls(got.entries), Head(todo)[1])

\* a loop that skips a playlist without members as if it were no playlist
PlaylistStepSkipEmpty(got, mkdir) ==
  /\ pc = "pl_loop"
  /\ todo # <<>>
  /\ todo' = Tail(todo)
  /\ info' = got
  /\ UNCHANGED <<globals, op, raised, idxs, snapshot, issued>>
  /\ IF got.kind = "raise" \/ got.kind = "no_entries" \/ mkdir = "raise" \/ got.entries = <<>>
     THEN /\ pc' = "pl_loop"
          /\ UNCHANGED frame
     ELSE /\ Fits(Len(VideoUrls(got.entries)))
          /\ CallRunDownload(HandlerOpts(Head(todo)[1], OutputDir), VideoUrls(got.entries), Head(todo)[1])

\* one turn of  for pl_url in urls:  up to the call of run_download
PlaylistStep(got, mkdir) ==
  /\ pc = "pl_loop"
  /\ todo # <<>>
  /\ todo' = Tail(todo)
  /\ info' = got
  /\ UNCHANGED <<globals, op, raised, idxs, snapshot, issued>>
  /\ IF got.kind = "raise" \/ got.kind = "no_entries" \/ mkdir = "raise"
     THEN \* Error processing playlist / Not a playlist. Skipping.
          /\ pc' = "pl_loop"
          /\ UNCHANGED frame
     ELSE /\ Fits(Len(VideoUrls(got.entries)))
          /\ CallRunDownload(HandlerOpts(Head(todo)[1], OutputDir), VideoUrls(got.entries), Head(todo)[1])

\* the loop over the playlist URLs is over
PlaylistDone ==
  /\ pc = "pl_loop"
  /\ todo = <<>>
  /\ pc' = "quit"
  /\ UNCHANGED <<globals, handler, frame>>

(***************************************************************************)
(* [7]: resume_failed_downloads and _retry_downloads                       *)
(***************************************************************************)
\* the descriptions of the records, each once, in order of first occurrence
RECURSIVE DescsOf(_)
DescsOf(reg) ==
  IF reg = <<>> THEN <<>>
  ELSE LET rest == DescsOf(SubSeq(reg, 1, Len(reg) - 1))
           d == reg[Len(reg)][2]
       IN  IF \E i \in 1..Len(rest) : rest[i] = d THEN rest ELSE Append(rest, d)

\* the urls of the records described d, in order
RECURSIVE UrlsOf(_, _)
UrlsOf(reg, d) ==
  IF reg = <<>> THEN <<>>
  ELSE IF Head(reg)[2] = d THEN <<Head(reg)[1]>> \o UrlsOf(Tail(reg), d)
  ELSE UrlsOf(Tail(reg), d)

\* failed_by_desc.items(): <<desc, urls>> per description
FailedByDesc(reg) == [i \in 1..Len(DescsOf(reg)) |-> <<DescsOf(reg)[i], UrlsOf(reg, DescsOf(reg)[i])>>]

\* [int(i.strip()) - 1 for i in choice.split(',') if i.strip().isdigit()]
RECURSIVE ItemIdxs(_)
ItemIdxs(items) ==
  IF items = <<>> THEN <<>>
  ELSE IF IsDigit(Strip(Head(items))) THEN <<ToInt(Strip(Head(items))) - 1>> \o ItemIdxs(Tail(items))
  ELSE ItemIdxs(Tail(items))

ParseIdxs(choice) == ItemIdxs(Split(choice, ","))

\* sorted(idxs, reverse=True)
RECURSIVE SortedReverse(_)
SortedReverse(xs) ==
  IF xs = <<>> THEN <<>>
  ELSE LET k == CHOOSE i \in 1..Len(xs) : \A j \in 1..Len(xs) : xs[j] <= xs[i]
       IN  <<xs[k]>> \o SortedReverse(SubSeq(xs, 1, k - 1) \o SubSeq(xs, k + 1, Len(xs)))

\* list.pop(idx) with a 0-based idx: the list without that element
Pop(reg, idx) == SubSeq(reg, 1, idx) \o SubSeq(reg, idx + 2, Len(reg))

\* a loop that pops the records without keeping them for the retry
RECURSIVE PopEachDropping(_, _, _)
PopEachDropping(reg, order, to_retry) ==
  IF order = <<>> THEN [reg |-> reg, to_retry |-> to_retry]
  ELSE IF 0 <= Head(order) /\ Head(order) < Len(reg)
  THEN PopEachDropping(Pop(reg, Head(order)), Tail(order), to_retry)
  ELSE PopEachDropping(reg, Tail(order), to_retry)

\* a loop whose range check is only  idx < len(FAILED_DOWNLOADS):  list.pop
\* counts a negative idx from the end of the list
RECURSIVE PopEachWrapping(_, _, _)
PopEachWrapping(reg, order, to_retry) ==
  IF order = <<>> THEN [reg |-> reg, to_retry |-> to_retry]
  ELSE IF Head(order) < Len(reg) /\ 0 <= Len(reg) + Head(order)
  THEN LET idx == IF Head(order) < 0 THEN Len(reg) + Head(order) ELSE Head(order)
       IN  PopEachWrapping(Pop(reg, idx), Tail(order), Append(to_retry, reg[idx + 1]))
  ELSE PopEachWrapping(reg, Tail(order), to_retry)

\* the loop  for idx in sorted(idxs, reverse=True):  over the indices order;
\* the registry and to_retry after it
RECURSIVE PopEach(_, _, _)
PopEach(reg, order, to_retry) ==
  IF order = <<>> THEN [reg |-> reg, to_retry |-> to_retry]
  ELSE IF 0 <= Head(order) /\ Head(order) < Len(reg)
  THEN PopEach(Pop(reg, Head(order)), Tail(order), Append(to_retry, reg[Head(order) + 1]))
  ELSE PopEach(reg, Tail(order), to_retry)

\* reversed(seq)
Reversed(seq) == [i \in 1..Len(seq) |-> seq[Len(seq) + 1 - i]]

\* the retries of the records recs, one single-url retry each
SingleRetries(recs) == [i \in 1..Len(recs) |-> <<recs[i][2], <<recs[i][1]>>>>]

\* the lines typed at "Choose action:" that the model draws from
DigitChar(n) ==
  CASE n = 0 -> "0" [] n = 1 -> "1" [] n = 2 -> "2" [] n = 3 -> "3" [] n = 4 -> "4"
    [] n = 5 -> "5" [] n = 6 -> "6" [] n = 7 -> "7" [] n = 8 -> "8" [] n = 9 -> "9"

NumberItems == {<<DigitChar(n)>> : n \in 0..(MaxReg + 1)}
OtherItems == {<<>>, <<"x">>, <<" ", "1">>, <<SuperscriptTwo>>}
PairChoices == {x \o <<",">> \o y : x \in NumberItems \cup OtherItems, y \in NumberItems \cup OtherItems}
TripleChoices == {x \o <<",">> \o y \o <<",">> \o z : x \in NumberItems, y \in NumberItems, z \in NumberItems}
ResumeChoices ==
  {<<"c">>, <<"a">>, <<"A", " ">>, <<"x">>, <<>>} \cup NumberItems \cup PairChoices \cup TripleChoices

\* the branch of the choice calls int() on text that isdigit() accepted and
\* int() rejects: in the list comprehension of the comma branch, before any
\* record is popped, or in the number branch
ResumeRaises(choice) ==
  IF choice = <<"c">> \/ choice = <<"a">> THEN FALSE
  ELSE IF Contains(<<",">>, choice)
  THEN \E k \in 1..Len(Split(choice, ",")) :
         IsDigit(Strip(Split(choice, ",")[k])) /\ IntRaises(Strip(Split(choice, ",")[k]))
  ELSE IsDigit(choice) /\ IntRaises(choice)

resume_failed_downloads(typed) ==
  /\ pc = "menu"
  /\ info' = NoInfo
  /\ snapshot' = FAILED_DOWNLOADS
  /\ issued' = <<>>
  /\ UNCHANGED <<MAX_WORKERS, frame>>
  /\ raised' = IF FAILED_DOWNLOADS # <<>> /\ ResumeRaises(Lower(Strip(typed))) THEN "int" ELSE "none"
  /\ IF FAILED_DOWNLOADS = <<>>
     THEN \* No failed downloads to resume.
          /\ op' = "resume" /\ idxs' = <<>>
          /\ pc' = "quit" /\ todo' = <<>> /\ UNCHANGED FAILED_DOWNLOADS
     ELSE LET choice == Lower(Strip(typed))
          IN  IF choice = <<"c">>
              THEN /\ op' = "resume" /\ idxs' = <<>>
                   /\ pc' = "quit" /\ todo' = <<>> /\ UNCHANGED FAILED_DOWNLOADS
              ELSE IF choice = <<"a">>
              THEN /\ op' = "retry_all" /\ idxs' = <<>>
                   /\ todo' = FailedByDesc(FAILED_DOWNLOADS)
                   /\ FAILED_DOWNLOADS' = <<>>
                   /\ pc' = "retry_loop"
              ELSE IF ResumeRaises(choice)
              THEN \* ValueError: select() prints "Unexpected error"
                   /\ op' = "resume" /\ idxs' = <<>>
                   /\ pc' = "unexpected_error" /\ todo' = <<>> /\ UNCHANGED FAILED_DOWNLOADS
              ELSE IF Contains(<<",">>, choice)
              THEN LET popped == PopEach(FAILED_DOWNLOADS, SortedReverse(ParseIdxs(choice)), <<>>)
                   IN  /\ op' = "retry_selected" /\ idxs' = ParseIdxs(choice)
                       /\ FAILED_DOWNLOADS' = popped.reg
                       /\ todo' = SingleRetries(Reversed(popped.to_retry))
                       /\ pc' = "retry_loop"
              ELSE IF IsDigit(choice)
              THEN LET idx == ToInt(choice) - 1
                   IN  /\ op' = "retry_one" /\ idxs' = <<idx>>
                       /\ IF 0 <= idx /\ idx < Len(FAILED_DOWNLOADS)
                          THEN /\ FAILED_DOWNLOADS' = Pop(FAILED_DOWNLOADS, idx)
                               /\ todo' = SingleRetries(<<FAILED_DOWNLOADS[idx + 1]>>)
                               /\ pc' = "retry_loop"
                          ELSE \* Invalid number.
                               pc' = "quit" /\ todo' = <<>> /\ UNCHANGED FAILED_DOWNLOADS
              ELSE \* Invalid choice.
                   /\ op' = "resume" /\ idxs' = <<>>
                   /\ pc' = "quit" /\ todo' = <<>> /\ UNCHANGED FAILED_DOWNLOADS

\* a retry loop that does not move on to the next item
RetryStepAgain(dir) ==
  /\ pc = "retry_loop"
  /\ todo # <<>>
  /\ UNCHANGED <<globals, op, idxs, info, snapshot, todo>>
  /\ raised' = raised
  /\ issued' = Append(issued, <<Head(todo)[1], Head(todo)[2],
                                 retry_downloads_opts(Head(todo)[1], OutputDir)>>)
  /\ CallRunDownload(retry_downloads_opts(Head(todo)[1], OutputDir), Head(todo)[2], Head(todo)[1])

\* the next call of _retry_downloads(urls, desc): get_output_dir, the options, run_download
RetryStep(dir) ==
  /\ pc = "retry_loop"
  /\ todo # <<>>
  /\ UNCHANGED <<globals, op, idxs, info, snapshot>>
  /\ IF dir = "raise"
     THEN /\ pc' = "unexpected_error"
          /\ raised' = "output_dir"
          /\ UNCHANGED <<todo, issued, frame>>
     ELSE /\ todo' = Tail(todo)
          /\ raised' = raised
          /\ issued' = Append(issued, <<Head(todo)[1], Head(todo)[2],
                                         retry_downloads_opts(Head(todo)[1], OutputDir)>>)
          /\ CallRunDownload(retry_downloads_opts(Head(todo)[1], OutputDir), Head(todo)[2], Head(todo)[1])

\* every retry has been made
RetryDone ==
  /\ pc = "retry_loop"
  /\ todo = <<>>
  /\ pc' = "quit"
  /\ UNCHANGED <<globals, handler, frame>>

(***************************************************************************)
(* [8] download_thread_settings, [9] show_help, [10] exit, quit_prompt,    *)
(* and select()'s except clause                                            *)
(***************************************************************************)
\* the lines typed at the settings prompt that the model draws from
SettingsInputs == {<<"1">>, <<"2">>, <<" ", "2">>, <<"0">>, <<"x">>, <<>>, <<SuperscriptTwo>>, <<"-", "1">>}

\* a setting that takes any number typed
download_thread_settings_any(typed, eof) ==
  /\ pc = "menu"
  /\ StartHandler("settings")
  /\ MAX_WORKERS' =
       IF ~eof /\ IsDigit(Strip(typed)) /\ ~IntRaises(Strip(typed))
       THEN ToInt(Strip(typed))
       ELSE MAX_WORKERS
  /\ pc' = "quit"
  /\ raised' = IF ~eof /\ IsDigit(Strip(typed)) /\ IntRaises(Strip(typed)) THEN "int" ELSE "none"
  /\ todo' = <<>> /\ issued' = <<>>
  /\ UNCHANGED <<FAILED_DOWNLOADS, frame>>

\* eof: input() raises EOFError instead of returning typed.  The finally
\* clause calls quit_prompt on every path, also when int() raises ValueError,
\* which then goes on to select()
download_thread_settings(typed, eof) ==
  /\ pc = "menu"
  /\ StartHandler("settings")
  /\ MAX_WORKERS' =
       IF ~eof /\ IsDigit(Strip(typed)) /\ ~IntRaises(Strip(typed)) /\ ToInt(Strip(typed)) >= 1
       THEN ToInt(Strip(typed))
       ELSE MAX_WORKERS
  /\ pc' = "quit"
  /\ raised' = IF ~eof /\ IsDigit(Strip(typed)) /\ IntRaises(Strip(typed)) THEN "int" ELSE "none"
  /\ todo' = <<>> /\ issued' = <<>>
  /\ UNCHANGED <<FAILED_DOWNLOADS, frame>>

show_help ==
  /\ pc = "menu"
  /\ StartHandler("help")
  /\ pc' = "quit"
  /\ todo' = <<>> /\ raised' = "none" /\ issued' = <<>>
  /\ UNCHANGED <<globals, frame>>

\* choice 10: sys.exit(0)
Exit ==
  /\ pc = "menu"
  /\ pc' = "exited"
  /\ UNCHANGED <<globals, handler, frame>>

\* quit_prompt: an answer starting with n, end of file or an interrupt ends the
\* process; anything else goes back to the menu
quit_prompt(continue) ==
  /\ pc = "quit"
  /\ pc' = IF continue THEN "menu" ELSE "exited"
  /\ NoHandler
  /\ UNCHANGED <<globals, frame>>

\* except Exception in select(): the error is printed and the menu shown again
UnexpectedError ==
  /\ pc = "unexpected_error"
  /\ pc' = "menu"
  /\ NoHandler
  /\ NoFrame
  /\ UNCHANGED globals

(***************************************************************************)
(* Ctrl-C.  KeyboardInterrupt is raised in the main thread; it is not an   *)
(* Exception, so neither download_single, nor the playlist loop, nor       *)
(* select() catches it, and it reaches the except clause of the main loop. *)
(***************************************************************************)
\* where the main thread can be when the interrupt arrives (the prompts of
\* quit_prompt catch it themselves and exit)
Interruptible ==
  {"menu", "pl_loop", "retry_loop", "rd_start", "rd_submit", "rd_wait", "rd_collect", "rd_extend", "rd_return"}

\* the interrupt arrives: the main thread leaves whatever it was doing; on its
\* way out of the with block the executor is shut down with wait=True
Interrupt ==
  /\ pc \in Interruptible
  /\ pc' = "interrupted"
  /\ UNCHANGED <<globals, handler, frame>>

\* an exit that writes what the finished jobs returned to FAILED_DOWNLOADS first
InterruptExitFlush ==
  /\ pc = "interrupted"
  /\ executor > 0 => AllDone
  /\ FAILED_DOWNLOADS' = FAILED_DOWNLOADS \o CollectFailed(futures, urls, desc, Len(futures))
  /\ executor' = 0
  /\ pc' = "exited"
  /\ UNCHANGED <<MAX_WORKERS, handler, urls, desc, ydl_opts, job_opts, futures, failed, succeeded,
                 fetched, outcome, regAtCall, overtaken>>

\* the executor's shutdown has waited for the jobs already submitted (the
\* worker threads go on taking them); the main loop prints "Exiting..." and
\* the process ends
InterruptExit ==
  /\ pc = "interrupted"
  /\ executor > 0 => AllDone
  /\ executor' = 0
  /\ pc' = "exited"
  /\ UNCHANGED <<globals, handler, urls, desc, ydl_opts, job_opts, futures, failed, succeeded,
                 fetched, outcome, regAtCall, overtaken>>

(***************************************************************************)
(* The program.                                                            *)
(***************************************************************************)
\* the steps of run_download on a list that is not empty
RunBatchStep ==
  \/ RunSingle
  \/ BeginConcurrent
  \/ Submit
  \/ \E i \in DOMAIN futures : WorkerStart(i)
  \/ \E i \in DOMAIN futures : WorkerFinish(i)
  \/ WaitDone
  \/ Collect
  \/ Extend
  \/ Return

RunDownloadStep ==
  \/ RunEmpty
  \/ RunBatchStep

Next ==
  \/ \E label \in SingleLabels, us \in UrlLists, dir \in DirOutcomes : DownloadSingles(label, us, dir)
  \/ \E label \in PlaylistLabels, pls \in PlaylistLists, dir \in DirOutcomes : DownloadPlaylists(label, pls, dir)
  \/ \E got \in ResolverResults, mkdir \in DirOutcomes : PlaylistStep(got, mkdir)
  \/ PlaylistDone
  \/ \E typed \in ResumeChoices : resume_failed_downloads(typed)
  \/ \E dir \in DirOutcomes : RetryStep(dir)
  \/ RetryDone
  \/ \E typed \in SettingsInputs, eof \in BOOLEAN : download_thread_settings(typed, eof)
  \/ show_help
  \/ Exit
  \/ \E continue \in BOOLEAN : quit_prompt(continue)
  \/ UnexpectedError
  \/ Interrupt
  \/ InterruptExit
  \/ RunDownloadStep

Spec == Init /\ [][Next]_vars

(***************************************************************************)
(* One call of run_download on its own: the main thread has just entered   *)
(* run_download from a download handler, in any session state the call can *)
(* start from (thread settings 1, 2 or the default 5; no record or one     *)
(* record of an earlier batch in FAILED_DOWNLOADS).                        *)
(***************************************************************************)
PoolWorkers == {1, 2, 5}
PoolRegistries == {<<>>, <<<<"b", "Audio", FirstLine(ErrorMessage("b"))>>>>}
PoolLabels == {"Audio", "Video without Audio"}

PoolInit ==
  /\ MAX_WORKERS \in PoolWorkers
  /\ FAILED_DOWNLOADS \in PoolRegistries
  /\ pc = "rd_start" /\ op = "single" /\ todo = <<>> /\ raised = "none" /\ idxs = <<>>
  /\ urls \in SeqsOf(Urls, 0, PoolJobs)
  /\ desc \in PoolLabels
  /\ ydl_opts = HandlerOpts(desc, OutputDir) /\ job_opts = ydl_opts
  /\ executor = 0 /\ futures = <<>> /\ failed = <<>> /\ succeeded = <<>>
  /\ fetched = [i \in 1..Len(urls) |-> 0]
  /\ outcome = [i \in 1..Len(urls) |-> "none"]
  /\ regAtCall = FAILED_DOWNLOADS /\ overtaken = FALSE
  /\ info = NoInfo
  /\ snapshot = FAILED_DOWNLOADS
  /\ issued = <<>>

PoolNext == RunDownloadStep

SpecPool == PoolInit /\ [][PoolNext]_vars

\* the threads are scheduled and every fetch ends: a step of run_download that
\* stays possible is eventually taken
\* (checked from the calls with an empty registry and the description "Audio":
\* neither has a part in the scheduling)
FairInit == PoolInit /\ FAILED_DOWNLOADS = <<>> /\ desc = "Audio"

FairPool == FairInit /\ [][PoolNext]_vars /\ WF_vars(PoolNext)

(***************************************************************************)
(* One playlist-mode handler on its own, from the menu of a session whose  *)
(* thread setting is 1 or the default 5.                                   *)
(***************************************************************************)
PlaylistInit ==
  /\ MAX_WORKERS \in {1, 5}
  /\ FAILED_DOWNLOADS = <<>>
  /\ pc = "menu" /\ op = "none" /\ todo = <<>> /\ raised = "none" /\ idxs = <<>>
  /\ urls = <<>> /\ desc = "" /\ ydl_opts = NoOpts /\ job_opts = NoOpts
  /\ executor = 0 /\ futures = <<>> /\ failed = <<>> /\ succeeded = <<>>
  /\ fetched = <<>> /\ outcome = <<>> /\ regAtCall = <<>> /\ overtaken = FALSE
  /\ info = NoInfo /\ snapshot = <<>> /\ issued = <<>>

PlaylistNext ==
  \/ \E label \in PlaylistLabels, pls \in PlaylistLists, dir \in DirOutcomes : DownloadPlaylists(label, pls, dir)
  \/ \E got \in ResolverResults, mkdir \in DirOutcomes : PlaylistStep(got, mkdir)
  \/ PlaylistDone
  \/ RunDownloadStep

SpecPlaylist == PlaylistInit /\ [][PlaylistNext]_vars

\* the same handler, with every step that stays possible eventually taken
FairPlaylist == PlaylistInit /\ [][PlaylistNext]_vars /\ WF_vars(PlaylistNext)

(***************************************************************************)
(* One call of run_download on its own, with Ctrl-C.                       *)
(***************************************************************************)
InterruptInit == PoolInit /\ desc = "Audio"

InterruptNext ==
  \/ RunDownloadStep
  \/ Interrupt
  \/ InterruptExit

SpecInterrupt == InterruptInit /\ [][InterruptNext]_vars

(***************************************************************************)
(* One call of resume_failed_downloads on its own, from the menu of a      *)
(* session that has left records of failed "Audio" and "Video without      *)
(* Audio" downloads in FAILED_DOWNLOADS, with thread setting 1 or 5.       *)
(***************************************************************************)
ResumeRecords == {<<u, l, FirstLine(ErrorMessage(u))>> : u \in Urls, l \in PoolLabels}

ResumeInit ==
  /\ MAX_WORKERS \in {1, 5}
  /\ FAILED_DOWNLOADS \in SeqsOf(ResumeRecords, 0, MaxReg)
  /\ pc = "menu" /\ op = "none" /\ todo = <<>> /\ raised = "none" /\ idxs = <<>>
  /\ urls = <<>> /\ desc = "" /\ ydl_opts = NoOpts /\ job_opts = NoOpts
  /\ executor = 0 /\ futures = <<>> /\ failed = <<>> /\ succeeded = <<>>
  /\ fetched = <<>> /\ outcome = <<>> /\ regAtCall = <<>> /\ overtaken = FALSE
  /\ info = NoInfo /\ snapshot = <<>> /\ issued = <<>>

ResumeNext ==
  \/ \E typed \in ResumeChoices : resume_failed_downloads(typed)
  \/ \E dir \in DirOutcomes : RetryStep(dir)
  \/ RetryDone
  \/ RunBatchStep

SpecResume == ResumeInit /\ [][ResumeNext]_vars

(***************************************************************************)
(* A session of thread settings and single-mode downloads.                 *)
(***************************************************************************)
SettingsNext ==
  \/ \E typed \in SettingsInputs, eof \in BOOLEAN : download_thread_settings(typed, eof)
  \/ \E label \in SingleLabels, us \in UrlLists, dir \in DirOutcomes : DownloadSingles(label, us, dir)
  \/ \E continue \in BOOLEAN : quit_prompt(continue)
  \/ UnexpectedError
  \/ RunBatchStep

SpecSettings == Init /\ [][SettingsNext]_vars

(***************************************************************************)
(* Properties of one call of run_download.                                 *)
(***************************************************************************)
\* run_download is active
InRunDownload == pc \in {"rd_start", "rd_submit", "rd_wait", "rd_collect", "rd_extend", "rd_return"}

\* the jobs (positions in urls) whose fetch did o, in submission order
RECURSIVE JobsWith(_, _)
JobsWith(out, o) ==
  IF out = <<>> THEN <<>>
  ELSE LET rest == JobsWith(SubSeq(out, 1, Len(out) - 1), o)
       IN  IF out[Len(out)] = o THEN Append(rest, Len(out)) ELSE rest

\* run_download has filled its succeeded and failed lists
Collected == pc \in {"rd_extend", "rd_return"} /\ urls # <<>>

\* line is the text of msg before its first newline
IsFirstLineOf(line, msg) ==
  /\ \A i \in 1..Len(line) : line[i] # NL
  /\ Len(line) <= Len(msg)
  /\ SubSeq(msg, 1, Len(line)) = line
  /\ Len(line) = Len(msg) \/ msg[Len(line) + 1] = NL

\* C1: once run_download has collected a non-empty batch, succeeded and failed
\* together hold one entry per job, succeeded the URLs of the jobs whose fetch
\* completed and failed a record of each job whose fetch raised, both in
\* submission order, whatever the order the jobs finished in.
C1_PartitionInSubmissionOrder ==
  Collected =>
    LET good == JobsWith(outcome, "ok")
        bad == JobsWith(outcome, "fail")
    IN  /\ Len(succeeded) + Len(failed) = Len(urls)
        /\ succeeded = [k \in 1..Len(good) |-> urls[good[k]]]
        /\ [k \in 1..Len(failed) |-> failed[k][1]] = [k \in 1..Len(bad) |-> urls[bad[k]]]

\* a batch whose jobs finished out of submission order, one success and two failures
C1_Witness ==
  /\ pc = "rd_return" /\ overtaken
  /\ Len(succeeded) >= 1 /\ Len(failed) >= 2
  /\ \E i, j \in 1..Len(failed) : failed[i][1] # failed[j][1]

\* every job of a concurrent batch has reached its terminal outcome
AllTerminal ==
  /\ Len(futures) = Len(urls)
  /\ \A i \in 1..Len(urls) : futures[i].state = "done" /\ outcome[i] \in {"ok", "fail"} /\ fetched[i] >= 1

\* C2: in a batch of more than one job the main thread reads no result and does
\* not return before every job has reached success or failure; and every such
\* batch comes to the point where every job has been started and has finished,
\* whichever of the jobs fail.
C2_WaitsForEveryJob ==
  /\ []((pc \in {"rd_collect", "rd_extend", "rd_return"} /\ Len(urls) > 1) => AllTerminal)
  /\ (pc = "rd_start" /\ Len(urls) > 1) ~> (pc = "rd_return" /\ AllTerminal)

\* the results are being read after a job failed and a later sibling succeeded
C2_Witness ==
  /\ pc = "rd_collect" /\ Len(urls) >= 3
  /\ \E i, j \in 1..Len(urls) : i < j /\ outcome[i] = "fail" /\ outcome[j] = "ok"

\* C3: no exception of a fetch leaves run_download (none reaches select()), in
\* the single-job path and in the concurrent path; each failing job yields the
\* record (url, desc, first line of the message).
C3_FailuresBecomeRecords ==
  /\ raised # "fetch"
  /\ pc # "unexpected_error"
  /\ Collected =>
       LET bad == JobsWith(outcome, "fail")
       IN  /\ Len(failed) = Len(bad)
           /\ \A k \in 1..Len(bad) :
                /\ failed[k][1] = urls[bad[k]]
                /\ failed[k][2] = desc
                /\ IsFirstLineOf(failed[k][3], ErrorMessage(urls[bad[k]]))

\* a concurrent batch in which the fetch of b raised its two-line message
C3_Witness ==
  /\ pc = "rd_return" /\ Len(urls) > 1
  /\ \E i \in 1..Len(urls) : outcome[i] = "fail" /\ urls[i] = "b"

\* C4: when run_download returns from a batch of n jobs of which k failed,
\* FAILED_DOWNLOADS is what it was at the call followed by one record per
\* failed job, in submission order; no job that succeeded is recorded.
C4_RegistryGrowsByFailures ==
  pc = "rd_return" =>
    LET bad == JobsWith(outcome, "fail")
        before == Len(regAtCall)
    IN  /\ Len(FAILED_DOWNLOADS) = before + Len(bad)
        /\ SubSeq(FAILED_DOWNLOADS, 1, before) = regAtCall
        /\ \A k \in 1..Len(bad) :
             /\ FAILED_DOWNLOADS[before + k][1] = urls[bad[k]]
             /\ FAILED_DOWNLOADS[before + k][2] = desc

\* a batch of five jobs of which two failed, entered with a record in the registry
C4_Witness ==
  /\ pc = "rd_return" /\ Len(urls) = 5
  /\ Len(JobsWith(outcome, "fail")) = 2
  /\ Len(regAtCall) = 1 /\ Len(FAILED_DOWNLOADS) = 3

\* C9: at no time are more fetches in progress than MAX_WORKERS.
C9_AtMostMaxWorkersRunning ==
  Cardinality({i \in DOMAIN futures : futures[i].state = "running"}) <= MAX_WORKERS

\* the limit binds: two workers allowed, two fetches in progress, a job waiting
C9_Witness ==
  /\ MAX_WORKERS = 2
  /\ Cardinality({i \in DOMAIN futures : futures[i].state = "running"}) = 2
  /\ \E i \in DOMAIN futures : futures[i].state = "queued"

\* C10: within a call of run_download no job is fetched twice and none is
\* skipped: the jobs are submitted once each (a single job is not submitted at
\* all but fetched by the main thread), and when the results are in every job
\* has been fetched exactly once.
C10_EachJobFetchedOnce ==
  /\ \A i \in DOMAIN fetched : fetched[i] <= 1
  /\ Len(futures) <= Len(urls)
  /\ pc \in {"rd_wait", "rd_collect"} => Len(futures) = Len(urls)
  /\ Len(urls) = 1 => futures = <<>>
  /\ Collected => \A i \in 1..Len(urls) : fetched[i] = 1

\* a collected batch of at least three jobs, the first of which failed
C10_Witness ==
  /\ pc = "rd_extend" /\ Len(urls) >= 3
  /\ outcome[1] = "fail" /\ fetched[Len(urls)] = 1

\* C15: while run_download is active the caller's options are as the caller
\* built them, progress hook in place and not quiet; a batch of one job is
\* fetched by the main thread with exactly those options and no executor; a
\* batch of more than one job is fetched with a copy that differs in having no
\* progress hook and being quiet, and in nothing else.
C15_ProgressOnlyForSingleJob ==
  InRunDownload =>
    /\ ydl_opts = HandlerOpts(desc, OutputDir)
    /\ ydl_opts.quiet = FALSE /\ ydl_opts.progress_hooks = <<"progress_hook">>
    /\ Len(urls) = 1 => (job_opts = ydl_opts /\ executor = 0 /\ futures = <<>>)
    /\ (Len(urls) > 1 /\ pc # "rd_start") =>
         /\ job_opts.quiet = TRUE /\ job_opts.progress_hooks = <<>>
         /\ [job_opts EXCEPT !.quiet = FALSE, !.progress_hooks = <<"progress_hook">>] = ydl_opts

\* a batch of three jobs has been fetched quietly and is about to return, the
\* caller's options still verbose
C15_Witness ==
  /\ pc = "rd_return" /\ Len(urls) = 3
  /\ job_opts.quiet /\ ~ydl_opts.quiet
  /\ \A i \in 1..3 : fetched[i] = 1

\* C16: run_download on an empty list goes from its start to its return and
\* nowhere else: no fetch, no future, no executor, nothing in its failed and
\* succeeded lists, FAILED_DOWNLOADS as it was at the call.
C16_EmptyRunHasNoEffect ==
  (InRunDownload /\ urls = <<>>) =>
    /\ pc \in {"rd_start", "rd_return"}
    /\ fetched = <<>> /\ outcome = <<>> /\ futures = <<>> /\ executor = 0
    /\ failed = <<>> /\ succeeded = <<>>
    /\ FAILED_DOWNLOADS = regAtCall
    /\ job_opts = ydl_opts

\* run_download is about to return from an empty list, a record in the registry
C16_Witness ==
  /\ pc = "rd_return" /\ urls = <<>>
  /\ Len(FAILED_DOWNLOADS) = 1

\* the main thread has been interrupted
Interrupted == pc \in {"interrupted", "exited"}

\* C18: once Ctrl-C has reached the main thread inside run_download, the
\* registry is not written any more; it is what it was at the call, or, if
\* the interrupt came after the extend, that followed by the record of every
\* failed job of the fully collected batch, never a part of them; and the
\* process ends only when no job of the batch is queued or running and the
\* executor is shut down.
C18_InterruptDropsOutcomes ==
  /\ [](Interrupted =>
          \/ FAILED_DOWNLOADS = regAtCall
          \/ /\ FAILED_DOWNLOADS = regAtCall \o failed
             /\ Len(succeeded) + Len(failed) = Len(urls)
             /\ Len(failed) = Len(JobsWith(outcome, "fail")))
  /\ [][Interrupted => FAILED_DOWNLOADS' = FAILED_DOWNLOADS]_vars
  /\ [](pc = "exited" => (executor = 0 /\ ~(\E i \in DOMAIN futures : futures[i].state # "done")))

\* the process has ended after an interrupt during the wait: a job of the
\* batch had failed, none of its results was collected or recorded
C18_Witness ==
  /\ pc = "exited" /\ Len(urls) >= 3 /\ Len(futures) = Len(urls)
  /\ \E i \in DOMAIN outcome : outcome[i] = "fail"
  /\ failed = <<>> /\ succeeded = <<>>
  /\ FAILED_DOWNLOADS = regAtCall /\ Len(regAtCall) = 1

(***************************************************************************)
(* Properties of the thread setting.                                       *)
(***************************************************************************)
\* C19: MAX_WORKERS is at least 1 in every state; it changes only in the
\* thread-settings handler; that handler sets it to the number typed when the
\* line is "1", "2" or " 2" and leaves it as it is for "0", "x", "-1", the
\* empty line, a superscript two and the end of input; an executor is never
\* opened with fewer than one worker.
C19_MaxWorkersAtLeastOne ==
  /\ [](MAX_WORKERS >= 1)
  /\ [](executor > 0 => (executor = MAX_WORKERS /\ executor >= 1))
  /\ [][MAX_WORKERS' # MAX_WORKERS => (pc = "menu" /\ op' = "settings")]_vars
  /\ [][\A typed \in SettingsInputs, eof \in BOOLEAN :
          download_thread_settings(typed, eof) =>
            MAX_WORKERS' = IF ~eof /\ typed = <<"1">> THEN 1
                           ELSE IF ~eof /\ typed \in {<<"2">>, <<" ", "2">>} THEN 2
                           ELSE MAX_WORKERS]_vars

\* the setting was changed to 2 and a later line, a superscript two, has left
\* it there
C19_Witness ==
  /\ MAX_WORKERS = 2
  /\ op = "settings" /\ pc = "quit" /\ raised = "int"

(***************************************************************************)
(* Properties of the resume handler.                                       *)
(***************************************************************************)
\* the <<desc, urls>> of the retries issued so far
IssuedBatches == [k \in 1..Len(issued) |-> <<issued[k][1], issued[k][2]>>]

\* the handler select() called has come to its end
HandlerOver == pc \in {"quit", "unexpected_error"}

\* the records of reg at the 1-based positions in S, in order
RECURSIVE RecordsAt(_, _)
RecordsAt(reg, S) ==
  IF reg = <<>> THEN <<>>
  ELSE LET rest == RecordsAt(SubSeq(reg, 1, Len(reg) - 1), S)
       IN  IF Len(reg) \in S THEN Append(rest, reg[Len(reg)]) ELSE rest

\* C5: retry-all empties FAILED_DOWNLOADS before its first retry and, by the
\* time the handler is over, has issued exactly one retry per description of
\* the records it found, on exactly the URLs of that description.
C5_RetryAllOneBatchPerLabel ==
  op = "retry_all" =>
    /\ (pc = "retry_loop" /\ issued = <<>>) => FAILED_DOWNLOADS = <<>>
    /\ HandlerOver => IssuedBatches = FailedByDesc(snapshot)

\* C6: a comma-separated selection without repeats removes exactly the records
\* at the valid selected positions, leaves the others in their order, and by
\* the time the handler is over has retried each removed record on its own, in
\* ascending order of position.
C6_RetrySelectedRemovesAndRetries ==
  (op = "retry_selected" /\ \A j, k \in DOMAIN idxs : j # k => idxs[j] # idxs[k]) =>
    LET selected == {i \in 1..Len(snapshot) : \E k \in DOMAIN idxs : idxs[k] = i - 1}
        others == (1..Len(snapshot)) \ selected
    IN  /\ (pc = "retry_loop" /\ issued = <<>>) => FAILED_DOWNLOADS = RecordsAt(snapshot, others)
        /\ HandlerOver => IssuedBatches = SingleRetries(RecordsAt(snapshot, selected))

\* C7: every retry is issued with the format selector and the post-processing
\* steps that the download handler of the record's description uses.
C7_RetryUsesOriginalParameters ==
  \A k \in DOMAIN issued :
    /\ issued[k][3].format = HandlerOpts(issued[k][1], OutputDir).format
    /\ issued[k][3].postprocessors = HandlerOpts(issued[k][1], OutputDir).postprocessors

\* the handler running is one of the three retry actions
Retrying == op \in {"retry_all", "retry_selected", "retry_one"}

\* the jobs <<url, desc>> of the batches bs, each batch a <<desc, urls>>
RECURSIVE JobsOf(_)
JobsOf(bs) ==
  IF bs = <<>> THEN <<>>
  ELSE [k \in 1..Len(Head(bs)[2]) |-> <<Head(bs)[2][k], Head(bs)[1]>>] \o JobsOf(Tail(bs))

\* the <<url, desc>> of the records of reg
PairsOf(reg) == [k \in 1..Len(reg) |-> <<reg[k][1], reg[k][2]>>]

\* how often x occurs in seq
Count(seq, x) == Cardinality({k \in 1..Len(seq) : seq[k] = x})

\* a can be had from b by leaving elements out
RECURSIVE IsSubSeq(_, _)
IsSubSeq(a, b) ==
  IF a = <<>> THEN TRUE
  ELSE IF b = <<>> THEN FALSE
  ELSE IF Head(a) = Head(b) THEN IsSubSeq(Tail(a), Tail(b))
  ELSE IsSubSeq(a, Tail(b))

\* C11: within one retry action the jobs retried or still to be retried are
\* records of the registry as it was found, each at most once; the registry
\* is the records left in place, in their order, followed by fresh records,
\* and every fresh record comes from a retry already made, in the order of
\* the retries: a record that failed again is not taken up a second time.
C11_OneRetryPassPerCall ==
  Retrying =>
    LET taken == JobsOf(IssuedBatches \o todo)
        left == Len(snapshot) - Len(taken)
        fresh == SubSeq(FAILED_DOWNLOADS, left + 1, Len(FAILED_DOWNLOADS))
    IN  /\ \A k \in 1..Len(taken) : Count(taken, taken[k]) <= Count(PairsOf(snapshot), taken[k])
        /\ left >= 0 /\ Len(FAILED_DOWNLOADS) >= left
        /\ IsSubSeq(SubSeq(FAILED_DOWNLOADS, 1, left), snapshot)
        /\ IsSubSeq(PairsOf(fresh), JobsOf(IssuedBatches))

\* two records were selected; the retry of the first has failed again and left
\* its fresh record, the second is still to be retried
C11_Witness ==
  /\ op = "retry_selected" /\ pc = "retry_loop"
  /\ Len(snapshot) = 2 /\ Len(issued) = 1 /\ Len(todo) = 1
  /\ Len(FAILED_DOWNLOADS) = 1
  /\ FAILED_DOWNLOADS[1][1] = issued[1][2][1]

\* C14: a single number typed alone (retry one) and a selection that holds
\* that single number (retry selected) do the same to the same registry: with
\* a valid number the record at that position, and no other, leaves the
\* registry and exactly one retry, of that record alone, is issued; with an
\* invalid number the registry stays as it is and no retry is issued.
C14_RetryOneIsRetrySelected ==
  (op \in {"retry_one", "retry_selected"} /\ Len(idxs) = 1) =>
    LET i == idxs[1]
        valid == 0 <= i /\ i < Len(snapshot)
        rest == IF valid THEN SubSeq(snapshot, 1, i) \o SubSeq(snapshot, i + 2, Len(snapshot))
                ELSE snapshot
        batches == IF valid THEN <<<<snapshot[i + 1][2], <<snapshot[i + 1][1]>>>>>> ELSE <<>>
    IN  /\ IssuedBatches \o todo = batches
        /\ issued = <<>> => FAILED_DOWNLOADS = rest
        /\ Len(FAILED_DOWNLOADS) >= Len(rest)
        /\ SubSeq(FAILED_DOWNLOADS, 1, Len(rest)) = rest

\* the selection "2," (or the like) on two records: the second record has been
\* taken out and its retry issued, the first is still in the registry
C14_Witness ==
  /\ op = "retry_selected" /\ idxs = <<1>>
  /\ Len(snapshot) = 2 /\ Len(issued) = 1
  /\ pc = "rd_return" /\ FAILED_DOWNLOADS[1] = snapshot[1]

\* some job of the batch has been submitted and has not finished
InFlight == \E i \in DOMAIN futures : futures[i].state \in {"queued", "running"}

\* C17: FAILED_DOWNLOADS changes only in a step of the main thread, either the
\* extend at the end of run_download or the resume handler taking records out
\* at the menu, and only when no executor is open and no job is in flight;
\* from the call of run_download up to its extend, retry batches included,
\* the registry is what it was at the call.
C17_RegistryWrittenByMainThreadOnly ==
  /\ [][FAILED_DOWNLOADS' # FAILED_DOWNLOADS =>
          (pc \in {"rd_extend", "menu"} /\ executor = 0 /\ ~InFlight /\ Running = {})]_vars
  /\ [](InFlight => FAILED_DOWNLOADS = regAtCall)
  /\ [](pc \in {"rd_start", "rd_submit", "rd_wait", "rd_collect", "rd_extend"} => FAILED_DOWNLOADS = regAtCall)

\* a retry batch of two jobs: one has failed, the other is still being fetched,
\* and the registry, emptied by retry-all, has not been written
C17_Witness ==
  /\ op = "retry_all" /\ pc = "rd_wait"
  /\ \E i, j \in DOMAIN futures :
       futures[i].state = "done" /\ outcome[i] = "fail" /\ futures[j].state = "running"
  /\ FAILED_DOWNLOADS = <<>> /\ Len(snapshot) = 2

\* C20: whatever comma-separated selection is typed, the records at the
\* positions that are not among the numbers typed stay at the front of the
\* registry in their order, and the jobs retried or still to be retried are
\* records at positions that were typed, each at most once.
C20_UnselectedRecordsStay ==
  op = "retry_selected" =>
    LET typed == {idxs[k] + 1 : k \in 1..Len(idxs)}
        kept == RecordsAt(snapshot, (1..Len(snapshot)) \ typed)
        chosen == PairsOf(RecordsAt(snapshot, (1..Len(snapshot)) \cap typed))
        taken == JobsOf(IssuedBatches \o todo)
    IN  /\ Len(FAILED_DOWNLOADS) >= Len(kept)
        /\ SubSeq(FAILED_DOWNLOADS, 1, Len(kept)) = kept
        /\ \A k \in 1..Len(taken) : Count(taken, taken[k]) <= Count(chosen, taken[k])

\* the items of a comma-separated selection that name no record of a
\* registry of n records: not a number, 0, or a number above n
InvalidItems(n) ==
  {<<>>, <<"x">>, <<"0">>, <<SuperscriptTwo>>} \cup {<<DigitChar(k)>> : k \in (n + 1)..(MaxReg + 1)}

\* the lines typed at "Choose action:" that select nothing valid in a
\* registry of n records: cancel, an unrecognised choice, a single index that
\* is 0 or above n, a selection of invalid items only
NothingValid(n) ==
  {<<"c">>, <<"C", " ">>, <<"x">>, <<>>, <<SuperscriptTwo>>, <<"0">>}
    \cup {<<DigitChar(k)>> : k \in (n + 1)..(MaxReg + 1)}
    \cup {x \o <<",">> \o y : x \in InvalidItems(n), y \in InvalidItems(n)}
    \cup {x \o <<",">> \o y \o <<",">> \o z :
            x \in InvalidItems(n) \cap NumberItems, y \in InvalidItems(n) \cap NumberItems,
            z \in InvalidItems(n) \cap NumberItems}

\* the resume call in progress selected no record
SelectedNothing ==
  \/ op = "resume"
  \/ op \in {"retry_one", "retry_selected"}
       /\ \A k \in 1..Len(idxs) : ~(0 <= idxs[k] /\ idxs[k] < Len(snapshot))

\* C21: a resume action that selects nothing valid (cancel, an unrecognised
\* choice, a single index that is 0 or above the registry length, a
\* comma-separated selection whose items are all out of range or not
\* numbers) leaves the registry exactly as it was and issues no fetch: the
\* action leaves no retry pending, and in every state of such a call the
\* registry is the one at the call, no batch was issued and no url was
\* fetched.
C21_NothingValidChangesNothing ==
  /\ [](SelectedNothing =>
          /\ FAILED_DOWNLOADS = snapshot
          /\ issued = <<>> /\ todo = <<>>
          /\ fetched = <<>> /\ ~InRunDownload
          /\ pc \in {"quit", "retry_loop", "unexpected_error"})
  /\ [][pc = "menu" =>
        \A typed \in NothingValid(Len(FAILED_DOWNLOADS)) :
          resume_failed_downloads(typed) =>
            /\ FAILED_DOWNLOADS' = FAILED_DOWNLOADS
            /\ todo' = <<>> /\ issued' = <<>>
            /\ pc' \in {"quit", "retry_loop", "unexpected_error"}
            /\ SelectedNothing'
            /\ UNCHANGED frame]_vars

\* a selection of two items, neither naming a record of the two in the
\* registry, has been handled
C21_Witness ==
  /\ op = "retry_selected" /\ pc = "quit"
  /\ Len(idxs) = 2 /\ Len(snapshot) = 2
  /\ \A k \in 1..Len(idxs) : ~(0 <= idxs[k] /\ idxs[k] < Len(snapshot))
  /\ FAILED_DOWNLOADS = snapshot /\ fetched = <<>>

\* the urls submitted to a retry batch during the call
RetriedUrls == {JobsOf(IssuedBatches)[j][1] : j \in 1..Len(JobsOf(IssuedBatches))}

\* C22: no record leaves the registry without a retry being attempted for
\* it: once a retryAll, retrySelected or retryOne call is over, also when it
\* was cut short by an error of the destination-directory step, every record
\* of the registry at the call is still in the registry or had its url
\* submitted to a retry batch during the call.
C22_NoRecordLeavesUnretried ==
  (Retrying /\ HandlerOver) =>
    \A k \in 1..Len(snapshot) :
      \/ \E j \in 1..Len(FAILED_DOWNLOADS) : PairsOf(FAILED_DOWNLOADS)[j] = PairsOf(snapshot)[k]
      \/ snapshot[k][1] \in RetriedUrls

(***************************************************************************)
(* Properties of the playlist handlers.                                    *)
(***************************************************************************)
\* C8 as stated: every playlist URL is expanded before run_download is called,
\* so no fetch has started while a playlist URL is still to be expanded.
C8_AllExpandedBeforeAnyFetch ==
  (op = "playlist" /\ \E i \in DOMAIN fetched : fetched[i] > 0) => todo = <<>>

\* C8: a playlist handler takes the playlist URLs one at a time: run_download
\* is called once for each playlist that resolves, on the members of that
\* playlist alone and under the handler's description; the next playlist is
\* expanded only when no call of run_download is active; the handler ends only
\* when every playlist URL has had its turn; the limit of MAX_WORKERS holds
\* within each playlist's batch.
C8_OneRunPerPlaylist ==
  /\ [](op = "playlist" =>
          /\ InRunDownload =>
               /\ info.kind = "playlist"
               /\ urls = VideoUrls(info.entries)
               /\ desc \in PlaylistLabels
               /\ ydl_opts = HandlerOpts(desc, OutputDir)
               /\ Cardinality(Running) <= MAX_WORKERS
          /\ pc = "pl_loop" => (urls = <<>> /\ futures = <<>> /\ executor = 0)
          /\ pc = "quit" => todo = <<>>)
  /\ [][(op = "playlist" /\ todo' # todo) =>
          (pc = "pl_loop" /\ executor = 0 /\ todo # <<>> /\ todo' = Tail(todo))]_vars
  /\ [][(op = "playlist" /\ pc' = "rd_start") => (pc = "pl_loop" /\ todo' = Tail(todo))]_vars

\* the playlist URL just taken did not resolve to a playlist, or resolving it raised
JustSkipped == op = "playlist" /\ pc = "pl_loop" /\ info.kind \in {"raise", "no_entries"}

\* C12: taking a playlist URL that does not resolve to a playlist, or whose
\* resolution raises, only moves the loop on to the next URL: nothing of
\* run_download is touched and FAILED_DOWNLOADS stays as it is; the only error
\* that ends a playlist handler is that of get_output_dir before the loop; the
\* URLs leave the list of those still to process one at a time, from its
\* front; and after a skip the handler goes on until it ends at quit_prompt
\* with no URL left to process.
C12_SkipDoesNotAbort ==
  /\ [][(op = "playlist" /\ pc = "pl_loop" /\ todo' # todo /\ info'.kind \in {"raise", "no_entries"}) =>
          (pc' = "pl_loop" /\ todo' = Tail(todo) /\ UNCHANGED <<FAILED_DOWNLOADS, frame>>)]_vars
  /\ []((op = "playlist" /\ pc = "unexpected_error") => info = NoInfo)
  /\ [][(op = "playlist" /\ todo' # todo) => todo' = Tail(todo)]_vars
  /\ JustSkipped ~> (op = "playlist" /\ pc = "quit" /\ todo = <<>>)

\* a URL that is no playlist has just been skipped and another URL follows it
C12_Witness ==
  /\ JustSkipped /\ info.kind = "no_entries"
  /\ todo # <<>>
  /\ FAILED_DOWNLOADS = <<>>

\* C13: a playlist that resolves with no member to download (no entries, or
\* none with a url) is not skipped: run_download is called on the empty list,
\* returns at once, starts no fetch and no worker, adds no record, and the
\* handler goes on without an error.
C13_EmptyPlaylistRunsNothing ==
  /\ []((op = "playlist" /\ InRunDownload /\ VideoUrls(info.entries) = <<>>) =>
          /\ urls = <<>> /\ pc \in {"rd_start", "rd_return"}
          /\ fetched = <<>> /\ futures = <<>> /\ executor = 0 /\ failed = <<>>
          /\ FAILED_DOWNLOADS = regAtCall)
  /\ []((op = "playlist" /\ info.kind = "playlist") => (pc # "unexpected_error" /\ raised = "none"))
  /\ [][\A got \in ResolverResults :
          (got.kind = "playlist" /\ VideoUrls(got.entries) = <<>> /\ PlaylistStep(got, "ok")) =>
            (pc' = "rd_start" /\ urls' = <<>>)]_vars
  /\ [][(op = "playlist" /\ pc = "rd_start" /\ urls = <<>>) =>
          (pc' = "rd_return" /\ UNCHANGED <<FAILED_DOWNLOADS, frame>>)]_vars

\* run_download has returned from the empty list of a playlist without
\* entries, with a playlist URL still to come
C13_Witness ==
  /\ op = "playlist" /\ pc = "rd_return"
  /\ info.kind = "playlist" /\ info.entries = <<>>
  /\ todo # <<>>

\* the batch of one playlist is being fetched, one worker allowed and a member
\* waiting for it, while a later playlist URL has not been expanded
C8_Witness ==
  /\ op = "playlist" /\ pc = "rd_wait" /\ todo # <<>>
  /\ MAX_WORKERS = 1
  /\ \E i, j \in DOMAIN futures : futures[i].state = "running" /\ futures[j].state = "queued"

====
